---- MODULE Spec2Model ----
(***************************************************************************)
(* Piano-roll interaction and transport engine of microtonalVibecode       *)
(* (src/src/components/PianoRoll.tsx, with the voice handles the audio     *)
(* engine's startTone returns).                                            *)
(*                                                                         *)
(* Conventions of the model                                                *)
(*  - Beats are integers counted in quarter beats (the grid every snap of  *)
(*    the code rounds to): beat 1.0 is 4, beat 0.25 is 1.                  *)
(*  - Pointer X positions are given in eighths of a beat (half a grid      *)
(*    cell), so that Math.round and Math.floor differ on them.             *)
(*  - The clock is read by differences only: the variable elapsed is      *)
(*    performance.now() - playbackStartMsRef.current, counted in clock     *)
(*    units of MsPerClock milliseconds; "playbackStartMsRef.current =      *)
(*    performance.now()" is elapsed' = 0.                                  *)
(*  - Note indices are 1-based here (index i of the code is i+1).          *)
(*  - A React render is atomic with the handler that caused it.  What the  *)
(*    code keeps across renders is kept here as well: the tick closure     *)
(*    handed to requestAnimationFrame, the window listeners a gesture      *)
(*    registers at button-down, and the keydown listener, which is         *)
(*    re-registered only when one of its effect dependencies changes.      *)
(***************************************************************************)
EXTENDS Integers, Sequences, FiniteSets, TLC

\* ------------------------------------------------------------------ bounds
MaxElapsed == 72      \* the clock stops advancing here
ShortGap == 4         \* clock units between two frames
ShortCap == 12        \* frames follow each other at ShortGap up to here
LoopCap == 20         \* the same, where the loop region is explored
LongGap == 64         \* a long pause between two frames (throttled tab)
MaxReadGap == 1       \* clock units between two performance.now() reads of one tick
MaxHandles == 4       \* startTone calls explored
MaxNotes == 4         \* notes in the channel
MaxHistory == 3       \* edits the undo stack is followed for

\* --------------------------------------------------------- program constants
Q == 4                \* grid cells per beat: the "/ 4" of every snap
MIN_TOTAL_BEATS == 16 \* Math.max(16, ...) of totalBeats
Tempo == 120          \* exampleProject.tempo
MsPerClock == 125     \* one clock unit, in milliseconds

\* ------------------------------------------------------------- arithmetic
Max(a, b) == IF a >= b THEN a ELSE b

Min(a, b) == IF a <= b THEN a ELSE b

\* Math.round(x / (beatPx / 4)) for a pointer x given in eighths of a beat
\* (Math.round rounds halves upwards, also for negative values).
Round2(x) == (x + 1) \div 2

\* Math.floor(x / (beatPx / 4)) for a pointer x given in eighths of a beat.
Floor2(x) == x \div 2

\* Math.ceil of a beat value counted in quarter beats, again in quarter beats.
CeilBeat(u) == ((u + Q - 1) \div Q) * Q

MaxOf(S) == CHOOSE m \in S : \A x \in S : x <= m

\* --------------------------------------------------------------- data model
NoSel == [has |-> FALSE, start |-> 0, end |-> 0]

\* A time selection with its ends exchanged.
TimeSelSwapped(s, e) == [has |-> TRUE, start |-> e, end |-> s]

\* setTimeSelection({ start, end })
TimeSel(s, e) == [has |-> TRUE, start |-> s, end |-> e]

Note(s, d, r, v) == [start |-> s, duration |-> d, ratio |-> r, velocity |-> v]

\* exampleProject: the notes of channel ch1 (velocity in percent).
ExampleNotes ==
  << Note(0, 4, <<1, 1>>, 100), Note(4, 2, <<5, 4>>, 90), Note(12, 4, <<3, 2>>, 80) >>

\* The tuning rows of the model: rows of exampleProject's lattice, in its
\* ascending order.
TuningRows == << <<1, 1>>, <<5, 4>>, <<3, 2>> >>

\* const totalBeats = Math.max(16, Math.ceil(Math.max(0, ...ends)))
TotalBeats(ns) ==
  Max(MIN_TOTAL_BEATS * Q,
      CeilBeat(MaxOf({0} \cup {ns[i].start + ns[i].duration : i \in 1..Len(ns)})))

\* ------------------------------------------------------------------ voices
\* stops[h] is the number of stop() calls made on handle h; handle h is the
\* h-th value startTone returned.
EmptyMap == <<>>

Rank(i, S) == Cardinality({j \in S : j < i}) + 1

Zeros(n) == [k \in 1..n |-> 0]

\* h.stop() on every handle of map m (a handle held twice is stopped twice).
StopEach(m, idxs, st) ==
  [h \in DOMAIN st |-> Min(2, st[h] + Cardinality({i \in idxs : m[i] = h}))]

\* beat >= note.start && beat < note.start + note.duration
UnderPlayhead(n, beat) == beat >= n.start /\ beat < n.start + n.duration

Overlapped(ns, beat) == {i \in 1..Len(ns) : UnderPlayhead(ns[i], beat)}

\* startTone(...): the next handle, not yet stopped.
StartTone(st) == [handle |-> Len(st) + 1, stops |-> Append(st, 0)]

\* A gating without the has(idx) test: every covered note is started again.
NeedsVoiceAlways(m, i) == TRUE

\* if (!activePlaybackRef.current.has(idx))
NeedsVoice(m, i) == i \notin DOMAIN m

\* The gating of tick: start a voice for every note under the playhead that
\* has none (in index order), then stop and delete the voices of the notes no
\* longer under it.
GateNotes(m, st, ns, beat) ==
  LET ov == Overlapped(ns, beat)
      new == {i \in ov : NeedsVoice(m, i)}
      m1 == [i \in DOMAIN m \cup new |->
               IF i \in new THEN Len(st) + Rank(i, new) ELSE m[i]]
      st1 == st \o Zeros(Cardinality(new))
      gone == DOMAIN m1 \ ov
  IN [map |-> [i \in DOMAIN m1 \ gone |-> m1[i]], stops |-> StopEach(m1, gone, st1)]

\* The handles startTone returned between two states of stops.
NewHandles(st, st1) == (Len(st) + 1)..Len(st1)

\* A stop phase that stops nothing.
ScrubKeepGone(m, gone, st) == st

\* [...active.keys()].forEach(idx => { if (!overlapped.has(idx)) h.stop() ... })
ScrubStopGone(m, gone, st) == StopEach(m, gone, st)

\* if (!active.has(idx))   (scrub)
ScrubNeedsVoice(m, i) == i \notin DOMAIN m

\* updateForBeat of beginPlayheadDrag: the same gating on the scrub's own map.
UpdateForBeat(m, st, ns, beat) ==
  LET ov == Overlapped(ns, beat)
      new == {i \in ov : ScrubNeedsVoice(m, i)}
      m1 == [i \in DOMAIN m \cup new |->
               IF i \in new THEN Len(st) + Rank(i, new) ELSE m[i]]
      st1 == st \o Zeros(Cardinality(new))
      gone == DOMAIN m1 \ ov
  IN [map |-> [i \in DOMAIN m1 \ gone |-> m1[i]], stops |-> ScrubStopGone(m1, gone, st1)]

\* stopAllPlaybackTones: stop every handle of the map, then clear it.
StopAllPlaybackTones(m, st) == [map |-> EmptyMap, stops |-> StopEach(m, DOMAIN m, st)]

\* ------------------------------------------------------------------- state
VARIABLES
  notes,               \* project.channels[ch1].notes
  selected,            \* useState: set of selected note indices
  playheadBeat,        \* useState
  timeSelection,       \* useState: NoSel or [has, start, end]
  isPlaying,           \* useState
  rafIdRef,            \* "null", "live" (names the last request of rafQueue) or "dead"
  rafQueue,            \* the tick closures requestAnimationFrame holds
  playbackStartBeat,   \* useRef
  activePlayback,      \* activePlaybackRef: note index -> handle
  notePreviewHandles,  \* useRef: note index -> handle
  drawingPreviewRef,   \* 0 (null) or a handle
  draw,                \* the draw gesture: listeners, drawing state, closure
  scrub,               \* the playhead-drag gesture: listeners, closure, its map, its handles
  timeDrag,            \* the time-selection gesture: listeners, anchor, moved
  stopOnce,            \* note indices whose stopOnce listener is registered
  drag,                \* the note drag react-rnd tracks
  keyClosure,          \* what the registered keydown listener captured
  buttons,             \* mouse buttons held down
  mounted,             \* the component is mounted
  elapsed,             \* performance.now() - playbackStartMsRef.current
  stops,               \* stop() calls per handle
  playbackBefore,      \* activePlaybackRef's map before the last handler ran
  op,                  \* the handler that ran last
  channelId,           \* the channelId prop: 1 or 2
  otherNotes,          \* the notes of the channel that is not edited
  marquee,             \* the marquee gesture: listeners, marqueeState, closure
  lastInput,           \* the note index and modifier the last press was made with
  fundamental,         \* useState: NoFundamental (null) or a ratio
  nearest,             \* the last call of findNearestRowByYPx: arguments and result
  tuning,              \* channel.tuning: the tuning rows of the edited channel
  setProjectProp,      \* the setProject prop: "plain" (the edit sink alone) or
                       \* "withHistory" (App's setProjectWithHistory)
  history,             \* App useState: the undo stack, followed under "withHistory"
  future,              \* App useState: the redo stack
  ratioCall            \* the last call into utils/ratio: function, arguments, result

vars ==
  << notes, selected, playheadBeat, timeSelection, isPlaying, rafIdRef, rafQueue,
     playbackStartBeat, activePlayback, notePreviewHandles,
     drawingPreviewRef, draw, scrub, timeDrag, stopOnce, drag, keyClosure,
     buttons, mounted, elapsed, stops, playbackBefore, op,
     channelId, otherNotes, marquee, lastInput, fundamental, nearest,
     tuning, setProjectProp, history, future, ratioCall >>

transportVars ==
  << playheadBeat, isPlaying, rafIdRef, rafQueue, playbackStartBeat,
     activePlayback, elapsed, stops >>

gestureVars ==
  << notePreviewHandles, drawingPreviewRef, draw, scrub, timeDrag, stopOnce,
     drag, buttons >>

\* What the handlers of one specification never touch.
restVars ==
  << channelId, otherNotes, marquee, lastInput, fundamental, nearest,
     tuning, setProjectProp, history, future, ratioCall >>

\* The tuning and the setProject prop, which no handler changes.
propVars == << tuning, setProjectProp >>

\* The undo and redo stacks of App.
stackVars == << history, future >>

\* The fundamental, the records of the last nearest-row and ratio calls, the
\* props and the stacks.
sideVars == << fundamental, nearest, ratioCall, propVars, stackVars >>

NoRatioCall ==
  [fn |-> "none", a |-> <<1, 1>>, b |-> <<1, 1>>, result |-> <<1, 1>>,
   error |-> "none"]

NoFundamental == << 0, 0 >>

NoNearest == [rows |-> << >>, k |-> 0, ratio |-> << 0, 0 >>]

NoDraw ==
  [on |-> FALSE, anchorBeat |-> 0, endBeat |-> 0, ratio |-> <<1, 1>>, x |-> 0,
   moved |-> FALSE, notes |-> <<>>, otherNotes |-> <<>>, channelId |-> 0]

NoMarquee == [on |-> FALSE, x |-> 0, y |-> 0, w |-> 0, h |-> 0, notes |-> <<>>]

NoInput == [index |-> 0, shift |-> FALSE]

\* A second channel for the channelId prop to switch to.
SecondChannelNotes == << Note(0, 8, <<3, 2>>, 100) >>

NoScrub == [on |-> FALSE, notes |-> <<>>, active |-> EmptyMap, started |-> {}]

NoTimeDrag == [on |-> FALSE, anchorBeat |-> 0, moved |-> FALSE]

NoDrag == [on |-> FALSE, index |-> 0, x |-> 0, y |-> 0, note |-> Note(0, 0, <<1, 1>>, 0)]

\* The component and the stacks after construction.
InitComponent ==
  /\ notes = ExampleNotes
  /\ selected = {}
  /\ playheadBeat = 0
  /\ timeSelection = NoSel
  /\ isPlaying = FALSE
  /\ rafIdRef = "null"
  /\ rafQueue = <<>>
  /\ playbackStartBeat = 0
  /\ activePlayback = EmptyMap
  /\ notePreviewHandles = EmptyMap
  /\ drawingPreviewRef = 0
  /\ draw = NoDraw
  /\ scrub = NoScrub
  /\ timeDrag = NoTimeDrag
  /\ stopOnce = {}
  /\ drag = NoDrag
  /\ keyClosure = [playheadBeat |-> 0, timeSelection |-> NoSel]
  /\ buttons = {}
  /\ mounted = TRUE
  /\ elapsed = 0
  /\ stops = <<>>
  /\ playbackBefore = EmptyMap
  /\ op = "init"
  /\ channelId = 1
  /\ otherNotes = SecondChannelNotes
  /\ marquee = NoMarquee
  /\ lastInput = NoInput
  /\ fundamental = NoFundamental
  /\ nearest = NoNearest
  /\ history = << >>
  /\ future = << >>
  /\ ratioCall = NoRatioCall

Init ==
  /\ InitComponent
  /\ tuning = TuningRows
  /\ setProjectProp = "plain"

\* The same project with a channel that has no tuning rows.
InitNoRows ==
  /\ InitComponent
  /\ tuning = << >>
  /\ setProjectProp = "plain"

\* PianoRoll as App renders it: setProject={setProjectWithHistory}.
InitApp ==
  /\ InitComponent
  /\ tuning = TuningRows
  /\ setProjectProp = "withHistory"

\* ---------------------------------------------------------------------- App
\* A project value: the notes of the edited channel and of the other one.
Project(ns, ons) == [notes |-> ns, otherNotes |-> ons]

WithHistory == setProjectProp = "withHistory"

\* An edit has room on the undo stack that is followed.
HistoryRoom == WithHistory => Len(history) < MaxHistory

\* setHistory((h) => [...h, project])
PushHistory(h, p) == Append(h, p)

\* setProjectWithHistory(next) of the render whose project is p: the stacks
\* after it.  The plain sink keeps no stacks.
HistoryAfter(p) == IF WithHistory THEN PushHistory(history, p) ELSE history

\* setFuture([])
FutureAfter == IF WithHistory THEN << >> ELSE future

\* f.slice(1)
RedoRest(f) == Tail(f)

\* The keydown effect has the dependencies [project, selected, channelId,
\* setProject, isPlaying]: its listener is replaced, and captures the render's
\* playheadBeat and timeSelection, only when one of them changed.
KeyEffect(depsChanged, ph, ts) ==
  IF depsChanged THEN [playheadBeat |-> ph, timeSelection |-> ts] ELSE keyClosure

\* The render a button's onClick belongs to: the latest one.
Render ==
  [isPlaying |-> isPlaying, playheadBeat |-> playheadBeat,
   timeSelection |-> timeSelection, notes |-> notes]

\* The render the keydown listener belongs to.
KeyRender ==
  [isPlaying |-> isPlaying, playheadBeat |-> keyClosure.playheadBeat,
   timeSelection |-> keyClosure.timeSelection, notes |-> notes]

\* --------------------------------------------------------------- transport
\* A cancel that leaves the request pending.
CancelRafNone(q, ref) == q

\* cancelAnimationFrame(rafIdRef.current)
CancelRaf(q, ref) == IF ref = "live" THEN SubSeq(q, 1, Len(q) - 1) ELSE q

\* A beat counted from zero since the last anchor.
BeatAtFromZero(startBeat, el) == (el * MsPerClock * Tempo * Q) \div 60000

\* playbackStartBeatRef.current + elapsedSec * (tempo / 60), in quarter beats
BeatAt(startBeat, el) == startBeat + (el * MsPerClock * Tempo * Q) \div 60000

\* A startPlayback without its early return.
PlayNeverNoop(c) == FALSE

\* if (isPlaying) return;
PlayIsNoop(c) == c.isPlaying

\* Math.max(0, fromBeat ?? (timeSelection ? timeSelection.start : playheadBeat))
StartBeat(c) ==
  Max(0, IF c.timeSelection.has THEN c.timeSelection.start ELSE c.playheadBeat)

\* startPlayback(), called from render c
StartPlayback(c) ==
  IF PlayIsNoop(c)
    THEN UNCHANGED << transportVars, keyClosure >>
    ELSE /\ playheadBeat' = StartBeat(c)
         /\ playbackStartBeat' = StartBeat(c)
         /\ elapsed' = 0
         /\ isPlaying' = TRUE
         /\ rafIdRef' = "live"
         /\ rafQueue' = Append(rafQueue, [notes |-> c.notes, timeSelection |-> c.timeSelection])
         /\ keyClosure' = KeyEffect(~isPlaying, StartBeat(c), timeSelection)
         /\ UNCHANGED << activePlayback, stops >>

\* pausePlayback(), called from render c
PausePlayback(c) ==
  IF ~c.isPlaying
    THEN UNCHANGED << transportVars, keyClosure >>
    ELSE LET v == StopAllPlaybackTones(activePlayback, stops)
         IN /\ isPlaying' = FALSE
            /\ rafQueue' = CancelRaf(rafQueue, rafIdRef)
            /\ rafIdRef' = "null"
            /\ activePlayback' = v.map
            /\ stops' = v.stops
            /\ playbackStartBeat' = c.playheadBeat
            /\ elapsed' = 0
            /\ keyClosure' = KeyEffect(isPlaying, playheadBeat, timeSelection)
            /\ UNCHANGED playheadBeat

\* A stop that always resets to zero.
ResetBeatZero(c) == 0

\* const resetBeat = timeSelection ? timeSelection.start : 0;
ResetBeat(c) == IF c.timeSelection.has THEN c.timeSelection.start ELSE 0

\* stopPlayback(), called from render c
StopPlayback(c) ==
  LET v == StopAllPlaybackTones(activePlayback, stops)
  IN /\ rafQueue' = CancelRaf(rafQueue, rafIdRef)
     /\ rafIdRef' = "null"
     /\ isPlaying' = FALSE
     /\ activePlayback' = v.map
     /\ stops' = v.stops
     /\ playheadBeat' = ResetBeat(c)
     /\ playbackStartBeat' = ResetBeat(c)
     /\ elapsed' = 0
     /\ keyClosure' = KeyEffect(isPlaying, ResetBeat(c), timeSelection)

\* timeSelection && timeSelection.end > timeSelection.start
LoopActive(ts) == ts.has /\ ts.end > ts.start

\* const loops = Math.floor((beat - timeSelection.start) / len);
\* playbackStartBeatRef.current -= loops * len;
WrapStartBeat(startBeat, beat, ts) ==
  startBeat - ((beat - ts.start) \div (ts.end - ts.start)) * (ts.end - ts.start)

\* A wrap that leaves the voices alone.
WrapVoicesKeep(m, st) == [map |-> m, stops |-> st]

\* "Reset voices on wrap": stopAllPlaybackTones() inside the wrap branch
WrapVoices(m, st) == StopAllPlaybackTones(m, st)

\* A state setter of an unmounted component changes nothing.
SetState(old, new) == IF mounted THEN new ELSE old

\* The request the running callback came from is spent: a ref naming it is stale.
RefInTick(k) == IF rafIdRef = "live" /\ k = Len(rafQueue) THEN "dead" ELSE rafIdRef

QueueInTick(k) == SubSeq(rafQueue, 1, k - 1) \o SubSeq(rafQueue, k + 1, Len(rafQueue))

TickBeat == BeatAt(playbackStartBeat, elapsed)

\* tick, no wrap and no end: publish the beat, gate, request the next frame.
TickPlay(k) ==
  LET c == rafQueue[k]
      g == GateNotes(activePlayback, stops, c.notes, TickBeat)
  IN /\ k \in 1..Len(rafQueue)
     /\ IF LoopActive(c.timeSelection)
          THEN TickBeat < c.timeSelection.end
          ELSE TickBeat < TotalBeats(c.notes)
     /\ Len(g.stops) <= MaxHandles
     /\ playheadBeat' = SetState(playheadBeat, TickBeat)
     /\ activePlayback' = g.map
     /\ stops' = g.stops
     /\ rafQueue' = Append(QueueInTick(k), c)
     /\ rafIdRef' = "live"
     /\ playbackBefore' = activePlayback
     /\ op' = "tick"
     /\ UNCHANGED restVars
     /\ UNCHANGED << notes, selected, timeSelection, isPlaying, playbackStartBeat,
                     gestureVars, keyClosure, mounted, elapsed >>

\* tick, loop branch: shift the anchor back by whole loops, read the clock
\* again for the beat to publish, stop every voice, then gate.
TickWrap(k, gap) ==
  LET c == rafQueue[k]
      sb == WrapStartBeat(playbackStartBeat, TickBeat, c.timeSelection)
      beat == BeatAt(sb, elapsed + gap)
      v == WrapVoices(activePlayback, stops)
      g == GateNotes(v.map, v.stops, c.notes, beat)
  IN /\ k \in 1..Len(rafQueue)
     /\ LoopActive(c.timeSelection)
     /\ TickBeat >= c.timeSelection.end
     /\ gap \in 0..MaxReadGap
     /\ Len(g.stops) <= MaxHandles
     /\ playbackStartBeat' = sb
     /\ elapsed' = elapsed + gap
     /\ playheadBeat' = SetState(playheadBeat, beat)
     /\ activePlayback' = g.map
     /\ stops' = g.stops
     /\ rafQueue' = Append(QueueInTick(k), c)
     /\ rafIdRef' = "live"
     /\ playbackBefore' = activePlayback
     /\ op' = "tickWrap"
     /\ UNCHANGED restVars
     /\ UNCHANGED << notes, selected, timeSelection, isPlaying,
                     gestureVars, keyClosure, mounted >>

\* tick, "Stop at project end"
TickEnd(k) ==
  LET c == rafQueue[k]
      v == StopAllPlaybackTones(activePlayback, stops)
  IN /\ k \in 1..Len(rafQueue)
     /\ ~LoopActive(c.timeSelection)
     /\ TickBeat >= TotalBeats(c.notes)
     /\ isPlaying' = SetState(isPlaying, FALSE)
     /\ playheadBeat' = SetState(playheadBeat, TotalBeats(c.notes))
     /\ activePlayback' = v.map
     /\ stops' = v.stops
     /\ rafQueue' = CancelRaf(QueueInTick(k), RefInTick(k))
     /\ rafIdRef' = "null"
     /\ keyClosure' = KeyEffect(mounted /\ isPlaying, TotalBeats(c.notes), timeSelection)
     /\ playbackBefore' = activePlayback
     /\ op' = "tickEnd"
     /\ UNCHANGED restVars
     /\ UNCHANGED << notes, selected, timeSelection, playbackStartBeat,
                     gestureVars, mounted, elapsed >>

\* tick in which startTone throws on the first note that needs a voice: the
\* beat is published, the exception leaves tick before the stop phase and
\* before requestAnimationFrame, and rafIdRef keeps the id of the spent request.
TickThrow(k) ==
  LET c == rafQueue[k]
  IN /\ k \in 1..Len(rafQueue)
     /\ IF LoopActive(c.timeSelection)
          THEN TickBeat < c.timeSelection.end
          ELSE TickBeat < TotalBeats(c.notes)
     /\ \E i \in Overlapped(c.notes, TickBeat) : NeedsVoice(activePlayback, i)
     /\ playheadBeat' = SetState(playheadBeat, TickBeat)
     /\ rafQueue' = QueueInTick(k)
     /\ rafIdRef' = RefInTick(k)
     /\ playbackBefore' = activePlayback
     /\ op' = "tickThrow"
     /\ UNCHANGED restVars
     /\ UNCHANGED << notes, selected, timeSelection, isPlaying, playbackStartBeat,
                     activePlayback, stops, gestureVars, keyClosure, mounted,
                     elapsed >>

TickFails == \E k \in 1..Len(rafQueue) : TickThrow(k)

Tick == \E k \in 1..Len(rafQueue) :
  \/ TickPlay(k)
  \/ TickEnd(k)
  \/ \E gap \in 0..MaxReadGap : TickWrap(k, gap)

\* The play/pause button: isPlaying ? pausePlayback() : startPlayback()
ClickPlayPause ==
  /\ mounted
  /\ IF isPlaying THEN PausePlayback(Render) ELSE StartPlayback(Render)
  /\ playbackBefore' = activePlayback
  /\ op' = IF isPlaying THEN "pause" ELSE "play"
  /\ UNCHANGED restVars
  /\ UNCHANGED << notes, selected, timeSelection, gestureVars, mounted >>

\* Space in onKeyDown: the same choice, made in the render the listener captured
KeySpace ==
  /\ mounted
  /\ IF isPlaying THEN PausePlayback(KeyRender) ELSE StartPlayback(KeyRender)
  /\ playbackBefore' = activePlayback
  /\ op' = IF isPlaying THEN "pause" ELSE "play"
  /\ UNCHANGED restVars
  /\ UNCHANGED << notes, selected, timeSelection, gestureVars, mounted >>

\* startPlayback() as an operation of the component, whatever the state
CallStartPlayback ==
  /\ mounted
  /\ StartPlayback(Render)
  /\ playbackBefore' = activePlayback
  /\ op' = "play"
  /\ UNCHANGED restVars
  /\ UNCHANGED << notes, selected, timeSelection, gestureVars, mounted >>

\* The Stop button
ClickStop ==
  /\ mounted
  /\ StopPlayback(Render)
  /\ playbackBefore' = activePlayback
  /\ op' = "stop"
  /\ UNCHANGED restVars
  /\ UNCHANGED << notes, selected, timeSelection, gestureVars, mounted >>

\* Time passes while a frame request is pending (the clock is read by
\* differences only, so time passing while nothing is requested changes
\* nothing any handler reads).
ClockAdvance(dt, cap) ==
  /\ rafQueue # <<>>
  /\ elapsed + dt <= cap
  /\ elapsed' = elapsed + dt
  /\ playbackBefore' = activePlayback
  /\ op' = "clock"
  /\ UNCHANGED restVars
  /\ UNCHANGED << notes, selected, timeSelection, playheadBeat, isPlaying,
                  rafIdRef, rafQueue, playbackStartBeat, activePlayback, stops,
                  gestureVars, keyClosure, mounted >>

\* ---------------------------------------------------------------- pitch axis
\* scaled of getY, in ten-thousandths, root 261.63 Hz, window [30, 3000] Hz:
\*   10000 * (ln 3000 - ln(261.63 * ratio)) / (ln 3000 - ln 30), clamped to
\* [0, 10000].  12/1 and 16/1 lie above 3000 Hz and clamp to 0.
Scaled(r) ==
  CASE r = <<1, 1>> -> 5297
    [] r = <<5, 4>> -> 4813
    [] r = <<3, 2>> -> 4417
    [] r = <<12, 1>> -> 0
    [] r = <<16, 1>> -> 0
    [] OTHER -> 10000

\* getY(ratio) * 1000 with tuning rows `rows`: scaled * span,
\* span = Math.max(tuningRows.length - 1, 1).
GetYIn(rows, r) == (Scaled(r) * Max(Len(rows) - 1, 1) + 5) \div 10

\* getY(ratio) * 1000 in the channel of the model: 1059, 963 and 883 for its
\* three rows.
GetY(r) == GetYIn(tuning, r)

Abs(x) == IF x < 0 THEN 0 - x ELSE x

\* The forEach of findNearestRowByYPx: the first row at the least distance.
RECURSIVE NearestScan(_, _, _, _, _)
NearestScan(rows, y, idx, best, nearestIdx) ==
  IF idx > Len(rows) THEN nearestIdx
  ELSE LET dy == Abs(GetYIn(rows, rows[idx]) - y)
       IN IF best < 0 \/ dy < best
            THEN NearestScan(rows, y, idx + 1, dy, idx)
            ELSE NearestScan(rows, y, idx + 1, best, nearestIdx)

\* A lookup without rows that yields no ratio.
NoRowsNone(y) == [y |-> 0, ratio |-> <<0, 0>>]

\* if (tuningRows.length === 0) return { y: 0, ratio: { num: 1, den: 1 } }
NoRowsResult(y) == [y |-> 0, ratio |-> <<1, 1>>]

\* findNearestRowByYPx(yPx, rowPx, noteHPx), y in thousandths of a row height
FindNearestRowByYPx(rows, y) ==
  IF Len(rows) = 0 THEN NoRowsResult(y)
  ELSE LET i == NearestScan(rows, y, 1, -1, 1)
       IN [y |-> GetYIn(rows, rows[i]), ratio |-> rows[i]]

\* The ratios the tunings of the nearest-row calls are made of, and how many
\* rows they have at most.
RowRatios == { <<1, 1>>, <<5, 4>>, <<12, 1>>, <<16, 1>> }

MaxRows == 3

Tunings == UNION {[1..n -> RowRatios] : n \in 1..MaxRows}

\* findNearestRowByYPx(getY(tuningRows[k].ratio) * rowPx, rowPx, noteHPx) in
\* a channel whose tuning is `rows`.
CallFindNearestRow(rows, k) ==
  /\ mounted
  /\ nearest' = [rows |-> rows, k |-> k,
                 ratio |-> FindNearestRowByYPx(rows, GetYIn(rows, rows[k])).ratio]
  /\ op' = "nearestRow"
  /\ playbackBefore' = activePlayback
  /\ UNCHANGED << notes, selected, timeSelection, transportVars, gestureVars,
                  keyClosure, mounted, channelId, otherNotes, marquee, lastInput,
                  fundamental, ratioCall, propVars, stackVars >>

\* -------------------------------------------------------------- utils/ratio
\* const gcd = (a, b) => b === 0 ? a : gcd(b, a % b)
RECURSIVE Gcd(_, _)
Gcd(a, b) == IF b = 0 THEN a ELSE Gcd(b, a % b)

\* A JavaScript number division of non-negative integers num / g where g
\* divides num or is 0: 0 / 0 is NaN, and no division throws.
JsDiv(num, g) == IF g = 0 THEN "NaN" ELSE num \div g

\* simplifyRatio({ num, den })
SimplifyRatio(r) == << JsDiv(r[1], Gcd(r[1], r[2])), JsDiv(r[2], Gcd(r[1], r[2])) >>

\* multiplyRatios(a, b)
MultiplyRatios(a, b) == SimplifyRatio(<< a[1] * b[1], a[2] * b[2] >>)

\* A division that multiplies by b as it is.
DivideRatiosStraight(a, b) == SimplifyRatio(<< a[1] * b[1], a[2] * b[2] >>)

\* divideRatios(a, b)
DivideRatios(a, b) == SimplifyRatio(<< a[1] * b[2], a[2] * b[1] >>)

\* The integers the ratios of the calls are made of.
MaxRatioInt == 12

MaxDivideInt == 3

\* The calls leave the component as it is.
RatioFrame ==
  /\ playbackBefore' = activePlayback
  /\ UNCHANGED << notes, selected, timeSelection, transportVars, gestureVars,
                  keyClosure, mounted, channelId, otherNotes, marquee, lastInput,
                  fundamental, nearest, propVars, stackVars >>

\* simplifyRatio(a).  No statement of utils/ratio throws: the calls return
\* with error "none".
CallSimplify(a) ==
  /\ ratioCall' = [fn |-> "simplify", a |-> a, b |-> <<1, 1>>,
                   result |-> SimplifyRatio(a), error |-> "none"]
  /\ op' = "simplify"
  /\ RatioFrame

\* divideRatios(a, b)
CallDivide(a, b) ==
  /\ ratioCall' = [fn |-> "divide", a |-> a, b |-> b, result |-> DivideRatios(a, b),
                   error |-> "none"]
  /\ op' = "divide"
  /\ RatioFrame

\* simplifyRatio(multiplyRatios(a, divideRatios({ num: 1, den: 1 }, a)))
CallInverseProduct(a) ==
  /\ ratioCall' = [fn |-> "inverseProduct", a |-> a, b |-> <<1, 1>>,
                   result |-> SimplifyRatio(MultiplyRatios(a, DivideRatios(<<1, 1>>, a))),
                   error |-> "none"]
  /\ op' = "inverseProduct"
  /\ RatioFrame

\* ------------------------------------------------------------ pointer inputs
\* Pointer Y positions (thousandths of a row height) the gestures are tried
\* at; the X positions (eighths of a beat) are with the specifications.
PointerYs == {1000}

\* const snap = (xPx) => Math.max(0, Math.round(xPx / (beatPx / 4)) / 4)
Snap(x) == Max(0, Round2(x))

\* ------------------------------------------------------------------ gestures
\* Timeline onMouseDown, button 0: beginPlayheadDrag
TimelineDownLeft(x) ==
  LET u == UpdateForBeat(EmptyMap, stops, notes, Snap(x))
  IN /\ mounted
     /\ "left" \notin buttons
     /\ Len(u.stops) <= MaxHandles
     /\ playheadBeat' = Snap(x)
     /\ scrub' = [on |-> TRUE, notes |-> notes, active |-> u.map,
                  started |-> NewHandles(stops, u.stops)]
     /\ stops' = u.stops
     /\ buttons' = buttons \cup {"left"}
     /\ playbackBefore' = activePlayback
     /\ op' = "scrubDown"
     /\ UNCHANGED restVars
     /\ UNCHANGED << notes, selected, timeSelection, isPlaying, rafIdRef, rafQueue,
                     playbackStartBeat, activePlayback,
                     notePreviewHandles, drawingPreviewRef, draw, timeDrag,
                     stopOnce, drag, keyClosure, mounted, elapsed >>

\* Timeline onMouseDown, button 2: beginTimeSelection
TimelineDownRight(x) ==
  /\ mounted
  /\ "right" \notin buttons
  /\ timeDrag' = [on |-> TRUE, anchorBeat |-> Snap(x), moved |-> FALSE]
  /\ buttons' = buttons \cup {"right"}
  /\ playbackBefore' = activePlayback
  /\ op' = "timeDown"
  /\ UNCHANGED restVars
  /\ UNCHANGED << notes, selected, timeSelection, transportVars,
                  notePreviewHandles, drawingPreviewRef, draw, scrub,
                  stopOnce, drag, keyClosure, mounted >>

\* noteHPx in thousandths of a row: max(6, min(32, rowPx * 0.6)) with rowPx 32.
NoteH == 600

\* (e.target).closest(".note"): the pointer is on the element of a note, which
\* spans [x, x + max(0.25 beat, duration)) by [yCenter - h/2, yCenter + h/2).
OnNote(ns, x, y) ==
  \E i \in 1..Len(ns) :
    /\ 2 * ns[i].start <= x
    /\ x < 2 * ns[i].start + Max(2, 2 * ns[i].duration)
    /\ GetY(ns[i].ratio) - NoteH \div 2 <= y
    /\ y < GetY(ns[i].ratio) - NoteH \div 2 + NoteH

\* Grid onMouseDown off every note, button 0: beginDrawNote
GridDownLeft(x, y) ==
  LET nearestStart == FindNearestRowByYPx(tuning, y)
      t == StartTone(stops)
  IN /\ mounted
     /\ ~OnNote(notes, x, y)
     /\ "left" \notin buttons
     /\ Len(notes) < MaxNotes
     /\ Len(t.stops) <= MaxHandles
     /\ draw' = [on |-> TRUE, anchorBeat |-> Floor2(x), endBeat |-> Floor2(x),
                 ratio |-> nearestStart.ratio, x |-> x, moved |-> FALSE,
                 notes |-> notes,
                 otherNotes |-> otherNotes, channelId |-> channelId]
     /\ drawingPreviewRef' = t.handle
     /\ stops' = t.stops
     /\ buttons' = buttons \cup {"left"}
     /\ playbackBefore' = activePlayback
     /\ op' = "drawDown"
     /\ UNCHANGED restVars
     /\ UNCHANGED << notes, selected, timeSelection, playheadBeat, isPlaying,
                     rafIdRef, rafQueue, playbackStartBeat,
                     activePlayback, notePreviewHandles, scrub, timeDrag,
                     stopOnce, drag, keyClosure, mounted, elapsed >>

\* const next = new Set(additive ? prev : []); toggle i in next
ToggleSelect(prev, i, additive) ==
  LET next == IF additive THEN prev ELSE {}
  IN IF i \in next THEN next \ {i} ELSE next \cup {i}

\* toggleSelect(i, additive), applied to the current selection.
CallToggleSelect(i, additive) ==
  /\ mounted
  /\ selected' = ToggleSelect(selected, i, additive)
  /\ lastInput' = [index |-> i, shift |-> additive]
  /\ keyClosure' = KeyEffect(TRUE, playheadBeat, timeSelection)
  /\ playbackBefore' = activePlayback
  /\ op' = "toggle"
  /\ UNCHANGED sideVars
  /\ UNCHANGED << notes, timeSelection, transportVars, notePreviewHandles,
                  drawingPreviewRef, draw, scrub, timeDrag, stopOnce, drag,
                  buttons, mounted, channelId, otherNotes, marquee >>

\* Rnd onMouseDown with button 0 (the press preview and its stopOnce listener),
\* then Rnd onDragStart, which react-draggable calls on the same mousedown.
NoteDownLeft(i, shift) ==
  LET t == StartTone(stops)
      press == i \notin DOMAIN notePreviewHandles
      isSel == i \in selected
  IN /\ mounted
     /\ "left" \notin buttons
     /\ i \in 1..Len(notes)
     /\ press => Len(t.stops) <= MaxHandles
     /\ notePreviewHandles' =
          IF press THEN [j \in DOMAIN notePreviewHandles \cup {i} |->
                           IF j = i THEN t.handle ELSE notePreviewHandles[j]]
          ELSE notePreviewHandles
     /\ stops' = IF press THEN t.stops ELSE stops
     /\ stopOnce' = IF press THEN stopOnce \cup {i} ELSE stopOnce
     /\ selected' = IF isSel THEN selected ELSE ToggleSelect(selected, i, shift)
     /\ drag' = [on |-> TRUE, index |-> i, x |-> 2 * notes[i].start,
                 y |-> GetY(notes[i].ratio), note |-> notes[i]]
     /\ keyClosure' = KeyEffect(~isSel, playheadBeat, timeSelection)
     /\ buttons' = buttons \cup {"left"}
     /\ playbackBefore' = activePlayback
     /\ op' = "noteDown"
     /\ UNCHANGED sideVars
     /\ lastInput' = [index |-> i, shift |-> shift]
     /\ UNCHANGED << channelId, otherNotes, marquee >>
     /\ UNCHANGED << notes, timeSelection, playheadBeat, isPlaying, rafIdRef,
                     rafQueue, playbackStartBeat, activePlayback,
                     drawingPreviewRef, draw, scrub, timeDrag, mounted, elapsed >>

\* window mousemove: every registered move listener runs.
\*  - draw onMove dereferences containerRef.current!, null after unmount;
\*  - scrub and time-selection onMove return when timelineRef.current is null.
MouseMove(x, y) ==
  LET u == UpdateForBeat(scrub.active, stops, scrub.notes, Snap(x))
      doScrub == scrub.on /\ mounted
      bx == Snap(x)
      movedNow == timeDrag.moved \/ Abs(bx - timeDrag.anchorBeat) >= 1
      doTime == timeDrag.on /\ mounted
  IN /\ draw.on \/ scrub.on \/ timeDrag.on \/ drag.on \/ marquee.on
     /\ doScrub => Len(u.stops) <= MaxHandles
     /\ draw' = IF draw.on /\ mounted
                  THEN [draw EXCEPT !.endBeat = Round2(x), !.x = x, !.moved = TRUE,
                                    !.ratio = FindNearestRowByYPx(tuning, y).ratio]
                  ELSE draw
     /\ scrub' = IF doScrub
                   THEN [scrub EXCEPT !.active = u.map,
                                      !.started = @ \cup NewHandles(stops, u.stops)]
                   ELSE scrub
     /\ stops' = IF doScrub THEN u.stops ELSE stops
     /\ playheadBeat' = IF doScrub THEN Snap(x) ELSE playheadBeat
     /\ timeDrag' = IF doTime THEN [timeDrag EXCEPT !.moved = movedNow] ELSE timeDrag
     /\ timeSelection' = IF doTime /\ movedNow
                           THEN TimeSel(Min(timeDrag.anchorBeat, bx), Max(timeDrag.anchorBeat, bx))
                           ELSE timeSelection
     /\ drag' = IF drag.on THEN [drag EXCEPT !.x = Max(0, x), !.y = y] ELSE drag
     /\ marquee' = IF marquee.on /\ mounted
                     THEN [marquee EXCEPT !.w = x - marquee.x, !.h = y - marquee.y]
                     ELSE marquee
     /\ playbackBefore' = activePlayback
     /\ op' = "move"
     /\ UNCHANGED sideVars
     /\ UNCHANGED << channelId, otherNotes, lastInput >>
     /\ UNCHANGED << notes, selected, isPlaying, rafIdRef, rafQueue,
                     playbackStartBeat, activePlayback,
                     notePreviewHandles, drawingPreviewRef, stopOnce, keyClosure,
                     buttons, mounted, elapsed >>

\* The scrub's onMove in which startTone throws on the first note that needs
\* a voice: the playhead is published, the scrub's map is left as it was.
ScrubMoveThrow(x) ==
  /\ scrub.on /\ mounted
  /\ ~(draw.on \/ timeDrag.on \/ drag.on \/ marquee.on)
  /\ \E i \in Overlapped(scrub.notes, Snap(x)) : ScrubNeedsVoice(scrub.active, i)
  /\ playheadBeat' = Snap(x)
  /\ playbackBefore' = activePlayback
  /\ op' = "moveThrow"
  /\ UNCHANGED restVars
  /\ UNCHANGED << notes, selected, timeSelection, isPlaying, rafIdRef, rafQueue,
                  playbackStartBeat, activePlayback, stops, gestureVars,
                  keyClosure, mounted, elapsed >>

\* The note the draw gesture commits.
\* const duration = durRaw < 0.01 ? 1 : Math.max(0.25, Math.round(durRaw * 4) / 4)
DrawnNote(d) ==
  LET durRaw == Abs(d.endBeat - d.anchorBeat)
  IN Note(Min(d.anchorBeat, d.endBeat),
          IF durRaw < 1 THEN Q ELSE Max(1, durRaw),
          d.ratio, 100)

\* A scrub release that forgets its voices without stopping them.
ScrubReleaseLeak(m, st) == [map |-> EmptyMap, stops |-> st]

\* active.forEach(h => h.stop()); active.clear()   (scrub onUp)
ScrubRelease(m, st) == [map |-> EmptyMap, stops |-> StopEach(m, DOMAIN m, st)]

\* stopOnce of every pressed note: stop and delete the handle if it is there
StopOnceAll(m, idxs, st) ==
  [map |-> [j \in DOMAIN m \ idxs |-> m[j]],
   stops |-> StopEach(m, DOMAIN m \cap idxs, st)]

\* A drop that lands on the last row wherever it is.
DragRatioLast(rows, y) == rows[Len(rows)]

\* newRatio = findNearestRowByYPx(desiredTop + noteHPx / 2, rowPx, noteHPx).ratio
DragRatio(rows, y) == FindNearestRowByYPx(rows, y).ratio

\* updateNote(noteIndex, patch) on the notes of the latest render
UpdateNote(ns, i, newStart, newRatio) ==
  [j \in 1..Len(ns) |->
     IF j = i THEN [ns[j] EXCEPT !.start = newStart, !.ratio = newRatio] ELSE ns[j]]

\* The overlap test of the marquee's onUp.  X in eighths of a beat, Y in
\* thousandths of a row; a note's rectangle is centred on its row.
Overlap(n, rx, ry, rRight, rBottom) ==
  LET nx == 2 * n.start
      ny == GetY(n.ratio) - NoteH \div 2
      nRight == nx + 2 * n.duration
      nBottom == ny + NoteH
  IN ~(nRight < rx \/ nx > rRight \/ nBottom < ry \/ ny > rBottom)

\* hits: the indices of the closure's notes that overlap the normalized
\* marquee rectangle.
MarqueeHits(mq) ==
  LET rx == Min(mq.x, mq.x + mq.w)
      ry == Min(mq.y, mq.y + mq.h)
      rRight == rx + Abs(mq.w)
      rBottom == ry + Abs(mq.h)
  IN {i \in 1..Len(mq.notes) : Overlap(mq.notes[i], rx, ry, rRight, rBottom)}

\* The secondary button on the grid outside every note element: beginMarquee.
GridDownRight(x, y) ==
  /\ mounted
  /\ ~OnNote(notes, x, y)
  /\ "right" \notin buttons
  /\ buttons' = buttons \cup {"right"}
  /\ marquee' = [on |-> TRUE, x |-> x, y |-> y, w |-> 0, h |-> 0, notes |-> notes]
  /\ playbackBefore' = activePlayback
  /\ op' = "marqueeDown"
  /\ UNCHANGED sideVars
  /\ UNCHANGED << notes, selected, playheadBeat, timeSelection, isPlaying, rafIdRef,
                  rafQueue, playbackStartBeat, activePlayback, notePreviewHandles,
                  drawingPreviewRef, draw, scrub, timeDrag, stopOnce, drag,
                  keyClosure, mounted, elapsed, stops, channelId, otherNotes,
                  lastInput >>

\* The project a draw commit writes: the closure's project with the note
\* appended to the closure's channel.
CommitNotes(d, n) ==
  IF d.channelId = channelId
    THEN [notes |-> Append(d.notes, n), otherNotes |-> d.otherNotes]
    ELSE [notes |-> d.otherNotes, otherNotes |-> Append(d.notes, n)]

\* The project the draw gesture captured at its press: what its setProject
\* pushes on the undo stack.
DrawProject(d) ==
  IF d.channelId = channelId THEN Project(d.notes, d.otherNotes)
  ELSE Project(d.otherNotes, d.notes)

\* window mouseup of any button: every registered up listener runs (draw onUp,
\* scrub onUp, time-selection onUp, marquee onUp, stopOnce), then react-draggable ends the
\* drag of a note element that is still mounted (Rnd onDragStop).
MouseUp(b) ==
  LET st1 == IF draw.on /\ drawingPreviewRef # 0
               THEN StopEach(<<drawingPreviewRef>>, {1}, stops) ELSE stops
      commit == draw.on /\ mounted
      sr == IF scrub.on THEN ScrubRelease(scrub.active, st1)
            ELSE [map |-> scrub.active, stops |-> st1]
      so == StopOnceAll(notePreviewHandles, stopOnce, sr.stops)
      dragStop == drag.on /\ mounted /\ drag.index \in 1..Len(notes)
      ds == IF dragStop THEN StopOnceAll(so.map, {drag.index}, so.stops) ELSE so
      select == marquee.on /\ mounted
      cn == CommitNotes(draw, DrawnNote(draw))
  IN /\ b \in buttons
     /\ (commit \/ dragStop) => HistoryRoom
     /\ buttons' = buttons \ {b}
     /\ drawingPreviewRef' = IF draw.on THEN 0 ELSE drawingPreviewRef
     /\ draw' = NoDraw
     /\ scrub' = IF scrub.on THEN [NoScrub EXCEPT !.started = scrub.started]
                   ELSE NoScrub
     /\ timeDrag' = NoTimeDrag
     /\ stopOnce' = {}
     /\ drag' = NoDrag
     /\ notePreviewHandles' = ds.map
     /\ stops' = ds.stops
     /\ notes' = IF commit THEN cn.notes
                 ELSE IF dragStop
                   THEN UpdateNote(notes, drag.index, Max(0, Round2(drag.x)),
                                   DragRatio(tuning, drag.y))
                   ELSE notes
     /\ otherNotes' = IF commit THEN cn.otherNotes ELSE otherNotes
     /\ history' = IF commit THEN HistoryAfter(DrawProject(draw))
                   ELSE IF dragStop THEN HistoryAfter(Project(notes, otherNotes))
                   ELSE history
     /\ future' = IF commit \/ dragStop THEN FutureAfter ELSE future
     /\ selected' = IF select THEN MarqueeHits(marquee) ELSE selected
     /\ marquee' = NoMarquee
     /\ keyClosure' = KeyEffect(commit \/ dragStop \/ select, playheadBeat, timeSelection)
     /\ playbackBefore' = activePlayback
     /\ op' = "up"
     /\ UNCHANGED << fundamental, nearest, ratioCall, propVars >>
     /\ UNCHANGED << timeSelection, playheadBeat, isPlaying, rafIdRef,
                     rafQueue, playbackStartBeat, activePlayback,
                     mounted, elapsed, channelId, lastInput >>

\* A resize that keeps whatever width the element was left with.
ResizeDurationRaw(pw) == Round2(pw)

\* snappedDur = Math.max(0.25, Math.round(ref.offsetWidth / (beatPx / 4)) / 4)
ResizeDuration(pw) == Max(1, Round2(pw))

\* snappedStart = Math.max(0, Math.round(pos.x / (beatPx / 4)) / 4)
ResizeStart(px) == Max(0, Round2(px))

\* updateNote(i, { start: snappedStart, duration: snappedDur })
ResizeNote(ns, i, newStart, newDur) ==
  [j \in 1..Len(ns) |->
     IF j = i THEN [ns[j] EXCEPT !.start = newStart, !.duration = newDur] ELSE ns[j]]

\* Rnd onResizeStop of note element i, left at pos.x = px with
\* offsetWidth = pw (eighths of a beat).  The resize is taken whole, from the
\* press on a resize handle, which does not reach the element's onMouseDown,
\* to its release, with no other button held.
ResizeStop(i, px, pw) ==
  /\ mounted
  /\ buttons = {}
  /\ i \in 1..Len(notes)
  /\ HistoryRoom
  /\ notes' = ResizeNote(notes, i, ResizeStart(px), ResizeDuration(pw))
  /\ history' = HistoryAfter(Project(notes, otherNotes))
  /\ future' = FutureAfter
  /\ keyClosure' = KeyEffect(TRUE, playheadBeat, timeSelection)
  /\ lastInput' = [index |-> i, shift |-> FALSE, x |-> px, w |-> pw]
  /\ playbackBefore' = activePlayback
  /\ op' = "resize"
  /\ UNCHANGED << fundamental, nearest, ratioCall, propVars >>
  /\ UNCHANGED << selected, timeSelection, transportVars, gestureVars, mounted,
                  channelId, otherNotes, marquee >>

\* A press that sets no fundamental.
FundamentalNone(n) == NoFundamental

\* setFundamental(note.ratio)
FundamentalOf(n) == n.ratio

\* Rnd onMouseDown with button 1: setFundamental(note.ratio).  react-draggable
\* starts no drag for a button other than 0, and the grid's onMouseDown
\* returns for a target inside a note element.
NoteDownMiddle(i) ==
  /\ mounted
  /\ "middle" \notin buttons
  /\ i \in 1..Len(notes)
  /\ fundamental' = FundamentalOf(notes[i])
  /\ buttons' = buttons \cup {"middle"}
  /\ lastInput' = [index |-> i, shift |-> FALSE]
  /\ playbackBefore' = activePlayback
  /\ op' = "fundamental"
  /\ UNCHANGED << notes, selected, timeSelection, transportVars,
                  notePreviewHandles, drawingPreviewRef, draw, scrub, timeDrag,
                  stopOnce, drag, keyClosure, mounted, channelId, otherNotes,
                  marquee, nearest, ratioCall, propVars, stackVars >>

\* Delete or Backspace in onKeyDown.  A note element whose index no longer
\* exists is unmounted, and its drag with it.
RemainingNone(ns, sel) == 1..Len(ns)

\* The indices the filter of onKeyDown keeps: !selected.has(i).
Remaining(ns, sel) == {i \in 1..Len(ns) : i \notin sel}

KeyDelete ==
  LET keep == Remaining(notes, selected)
      ns == [k \in 1..Cardinality(keep) |->
               notes[CHOOSE i \in keep : Rank(i, keep) = k]]
  IN /\ mounted
     /\ HistoryRoom
     /\ notes' = ns
     /\ history' = HistoryAfter(Project(notes, otherNotes))
     /\ future' = FutureAfter
     /\ selected' = {}
     /\ drag' = IF drag.on /\ drag.index > Len(ns) THEN NoDrag ELSE drag
     /\ keyClosure' = KeyEffect(TRUE, playheadBeat, timeSelection)
     /\ playbackBefore' = activePlayback
     /\ op' = "delete"
     /\ UNCHANGED << channelId, otherNotes, marquee, lastInput, fundamental,
                     nearest, ratioCall, propVars >>
     /\ UNCHANGED << timeSelection, transportVars, notePreviewHandles,
                     drawingPreviewRef, draw, scrub, timeDrag, stopOnce,
                     buttons, mounted >>

\* What undo and redo leave alone in the component: a note element whose
\* index no longer exists is unmounted, and its drag with it.
StackFrame(changed) ==
  /\ drag' = IF drag.on /\ drag.index > Len(notes') THEN NoDrag ELSE drag
  /\ keyClosure' = KeyEffect(changed, playheadBeat, timeSelection)
  /\ playbackBefore' = activePlayback
  /\ UNCHANGED << selected, timeSelection, transportVars, notePreviewHandles,
                  drawingPreviewRef, draw, scrub, timeDrag, stopOnce, buttons,
                  mounted, channelId, marquee, lastInput, fundamental, nearest,
                  ratioCall, propVars >>

\* undo(): with an empty history the updater returns h and sets nothing.
Undo ==
  /\ WithHistory
  /\ IF Len(history) = 0
       THEN UNCHANGED << notes, otherNotes, history, future >>
       ELSE /\ future' = << Project(notes, otherNotes) >> \o future
            /\ notes' = history[Len(history)].notes
            /\ otherNotes' = history[Len(history)].otherNotes
            /\ history' = SubSeq(history, 1, Len(history) - 1)
  /\ op' = "undo"
  /\ StackFrame(Len(history) > 0)

\* redo(): with an empty future the updater returns f and sets nothing.
Redo ==
  /\ WithHistory
  /\ IF Len(future) = 0
       THEN UNCHANGED << notes, otherNotes, history, future >>
       ELSE /\ history' = PushHistory(history, Project(notes, otherNotes))
            /\ notes' = future[1].notes
            /\ otherNotes' = future[1].otherNotes
            /\ future' = RedoRest(future)
  /\ op' = "redo"
  /\ StackFrame(Len(future) > 0)

\* The two unmount cleanups: cancel the frame request and stop the playback
\* voices; stop and clear the note previews.  The keydown listener goes, the
\* listeners a gesture put on window stay.
Unmount ==
  LET v == StopAllPlaybackTones(activePlayback, stops)
      p == StopOnceAll(notePreviewHandles, DOMAIN notePreviewHandles, v.stops)
  IN /\ mounted
     /\ mounted' = FALSE
     /\ rafQueue' = CancelRaf(rafQueue, rafIdRef)
     /\ rafIdRef' = IF rafIdRef = "live" THEN "dead" ELSE rafIdRef
     /\ activePlayback' = v.map
     /\ notePreviewHandles' = p.map
     /\ stops' = p.stops
     /\ drag' = NoDrag
     /\ playbackBefore' = activePlayback
     /\ op' = "unmount"
     /\ UNCHANGED restVars
     /\ UNCHANGED << notes, selected, timeSelection, playheadBeat, isPlaying,
                     playbackStartBeat, drawingPreviewRef, draw,
                     scrub, timeDrag, stopOnce, keyClosure, buttons, elapsed >>

\* The parent renders the component with the other channel's id.  Nothing in
\* the component depends on channelId but the keydown effect: the state, the
\* refs and the frame request stay, the note elements are keyed by index and
\* stay while the new channel has a note of that index.
SwitchChannel ==
  /\ mounted
  /\ channelId' = 3 - channelId
  /\ notes' = otherNotes
  /\ otherNotes' = notes
  /\ drag' = IF drag.on /\ drag.index > Len(otherNotes) THEN NoDrag ELSE drag
  /\ keyClosure' = KeyEffect(TRUE, playheadBeat, timeSelection)
  /\ playbackBefore' = activePlayback
  /\ op' = "switch"
  /\ UNCHANGED sideVars
  /\ UNCHANGED << selected, timeSelection, transportVars, notePreviewHandles,
                  drawingPreviewRef, draw, scrub, timeDrag, stopOnce, buttons,
                  mounted, marquee, lastInput >>

\* ----------------------------------------------------------- specification
\* Pointer positions: the edges of the loop region on the timeline, the places
\* a note is drawn from and to, the places the playhead is scrubbed to.
LoopXs == {2 * Q, 8 * Q}

DrawXs == {2 * 2 * Q + 1, 2 * (MIN_TOTAL_BEATS * Q + 1)}

DrawToXs == {8 * Q}

TransportButtons ==
  \/ ClickPlayPause
  \/ KeySpace
  \/ CallStartPlayback
  \/ ClickStop

\* The transport and the time-selection drag that sets the loop region.
LoopNext ==
  \/ TransportButtons
  \/ Tick
  \/ ClockAdvance(ShortGap, LoopCap)
  \/ \E x \in LoopXs : TimelineDownRight(x)
  \/ \E x \in LoopXs, y \in PointerYs : MouseMove(x, y)
  \/ MouseUp("right")

SpecLoop == Init /\ [][LoopNext]_vars

\* The transport and the drawing of notes while it runs.
DrawNext ==
  \/ TransportButtons
  \/ Tick
  \/ ClockAdvance(ShortGap, ShortCap)
  \/ ClockAdvance(LongGap, MaxElapsed)
  \/ \E x \in DrawXs, y \in PointerYs : GridDownLeft(x, y)
  \/ \E x \in DrawToXs, y \in PointerYs : MouseMove(x, y)
  \/ MouseUp("left")

SpecDraw == Init /\ [][DrawNext]_vars

\* Every producer of a voice, with the deletion of notes and the unmount.
VoicesNext ==
  \/ ClickPlayPause
  \/ ClickStop
  \/ Tick
  \/ TimelineDownLeft(0)
  \/ \E i \in 1..2 : NoteDownLeft(i, FALSE)
  \/ \E y \in PointerYs : GridDownLeft(2 * 2 * Q + 1, y)
  \/ \E y \in PointerYs : MouseMove(2 * Q, y)
  \/ MouseUp("left")
  \/ KeyDelete
  \/ Unmount

SpecVoices == Init /\ [][VoicesNext]_vars

\* The editor of a project of two channels: transport, a press on a note, a
\* drawn note, and the parent switching the channel.
ChannelNext ==
  \/ ClickPlayPause
  \/ Tick
  \/ SwitchChannel
  \/ NoteDownLeft(1, FALSE)
  \/ \E y \in PointerYs : GridDownLeft(2 * 2 * Q + 1, y)
  \/ MouseUp("left")

SpecChannel == Init /\ [][ChannelNext]_vars

\* Where a note is drawn from, and where to: left of the grid origin, and an
\* eighth of a beat left of the anchor.
EditDownXs == {2 * 2 * Q}

EditToXs == {-(2 * Q), 2 * 2 * Q - 1}

\* Editing the notes: presses on the notes with and without shift, a drag, a
\* drawn note, and Delete, which may come while a button is down.
EditNext ==
  \/ \E i \in 1..Len(ExampleNotes), shift \in BOOLEAN : NoteDownLeft(i, shift)
  \/ \E x \in EditDownXs, y \in PointerYs : GridDownLeft(x, y)
  \/ \E x \in EditToXs, y \in PointerYs : MouseMove(x, y)
  \/ MouseUp("left")
  \/ KeyDelete

SpecEdit == Init /\ [][EditNext]_vars

\* toggleSelect on every index and both modes, from the selections that
\* presses on the notes and Delete leave.
ToggleNext ==
  \/ \E i \in 1..Len(ExampleNotes), additive \in BOOLEAN : CallToggleSelect(i, additive)
  \/ \E i \in 1..Len(ExampleNotes) : NoteDownLeft(i, TRUE)
  \/ MouseUp("left")
  \/ KeyDelete

SpecToggle == Init /\ [][ToggleNext]_vars

\* Where a marquee is pressed and dragged to: the right edge of the first
\* note and a beat past the last note, above and below the notes' rows.
MarqueeXs == {2 * Q, 5 * 2 * Q}

MarqueeYs == {500, 1300}

\* Selecting: a press on the last note, and the marquee of the secondary button.
MarqueeNext ==
  \/ NoteDownLeft(Len(ExampleNotes), FALSE)
  \/ \E x \in MarqueeXs, y \in MarqueeYs : GridDownRight(x, y)
  \/ \E x \in MarqueeXs, y \in MarqueeYs : MouseMove(x, y)
  \/ MouseUp("left")
  \/ MouseUp("right")

SpecMarquee == Init /\ [][MarqueeNext]_vars

\* Both buttons on the grid, the timeline and a note: every gesture that
\* registers listeners on window, in any interleaving of the two buttons.
GestureNext ==
  \/ \E y \in PointerYs : GridDownLeft(2 * 2 * Q + 1, y)
  \/ GridDownRight(2 * Q, 1300)
  \/ TimelineDownLeft(0)
  \/ TimelineDownRight(2 * Q)
  \/ NoteDownLeft(1, FALSE)
  \/ \E y \in PointerYs : MouseMove(2 * Q, y)
  \/ MouseUp("left")
  \/ MouseUp("right")

SpecGesture == Init /\ [][GestureNext]_vars

\* Transport and scrub with an audio engine whose startTone may throw.
FailNext ==
  \/ ClickPlayPause
  \/ ClickStop
  \/ Tick
  \/ TickFails
  \/ ClockAdvance(ShortGap, ShortCap)
  \/ TimelineDownLeft(0)
  \/ \E y \in PointerYs : MouseMove(2 * Q, y)
  \/ ScrubMoveThrow(2 * Q)
  \/ MouseUp("left")

SpecFail == Init /\ [][FailNext]_vars

\* Where the timeline is pressed and scrubbed to: twice inside the first
\* note, the start of the second note, and past its end.
ScrubXs == {0, Q, 2 * Q, 3 * Q}

\* Scrubbing the playhead, with the notes edited or not while the button is
\* down.
ScrubNext ==
  \/ \E x \in ScrubXs : TimelineDownLeft(x)
  \/ \E x \in ScrubXs, y \in PointerYs : MouseMove(x, y)
  \/ MouseUp("left")
  \/ NoteDownLeft(1, FALSE)
  \/ KeyDelete

SpecScrub == Init /\ [][ScrubNext]_vars

\* Drawing and dragging notes in a channel without tuning rows, with Delete.
NoRowsNext ==
  \/ \E i \in 1..Len(ExampleNotes) : NoteDownLeft(i, FALSE)
  \/ \E y \in PointerYs : GridDownLeft(2 * 2 * Q + 1, y)
  \/ \E x \in EditToXs, y \in PointerYs : MouseMove(x, y)
  \/ MouseUp("left")
  \/ KeyDelete

SpecNoRows == InitNoRows /\ [][NoRowsNext]_vars

\* The editor under App: the first note and a drawn note pressed and
\* dropped, a note drawn, Delete, undo and redo.
AppNext ==
  \/ \E i \in {1, Len(ExampleNotes) + 1} : NoteDownLeft(i, FALSE)
  \/ \E y \in PointerYs : GridDownLeft(2 * 2 * Q + 1, y)
  \/ MouseUp("left")
  \/ KeyDelete
  \/ Undo
  \/ Redo

SpecApp == InitApp /\ [][AppNext]_vars

\* Where the timeline is pressed with the secondary button and dragged to:
\* left of the origin, beat 1, and beat 4.
TimeXs == {-3, 2 * Q, 8 * Q}

\* Time-range gestures, with the transport buttons, ticks and Delete between
\* and during them.
TimeNext ==
  \/ \E x \in TimeXs : TimelineDownRight(x)
  \/ \E x \in TimeXs, y \in PointerYs : MouseMove(x, y)
  \/ MouseUp("right")
  \/ ClickPlayPause
  \/ ClickStop
  \/ Tick
  \/ KeyDelete

SpecTime == Init /\ [][TimeNext]_vars

\* The calls into utils/ratio: simplify on every pair of integers up to
\* MaxRatioInt, zero included; divide on every pair of ratios of integers up
\* to MaxDivideInt, zero included; the product of a ratio of positive
\* integers with its inverse.
RatioNext ==
  \/ \E n \in 0..MaxRatioInt, d \in 0..MaxRatioInt : CallSimplify(<<n, d>>)
  \/ \E n \in 0..MaxDivideInt, d \in 0..MaxDivideInt :
       \E m \in 0..MaxDivideInt, e \in 0..MaxDivideInt : CallDivide(<<n, d>>, <<m, e>>)
  \/ \E n \in 1..MaxRatioInt, d \in 1..MaxRatioInt : CallInverseProduct(<<n, d>>)

SpecRatio == Init /\ [][RatioNext]_vars

\* The nearest row of the exact position of every row of every tuning.
NearestNext ==
  \E rows \in Tunings : \E k \in 1..Len(rows) : CallFindNearestRow(rows, k)

SpecNearest == Init /\ [][NearestNext]_vars

\* Where a resized note element is left (pos.x), and how wide (offsetWidth),
\* in eighths of a beat: left of the origin and at beat 1; collapsed, 3/8 of
\* a beat, and one beat.
ResizeXs == {-3, 2 * Q}

ResizeWs == {0, 3, 2 * Q}

\* Resizing the notes, between presses on the first note and Delete.
ResizeNext ==
  \/ \E i \in 1..Len(ExampleNotes), px \in ResizeXs, pw \in ResizeWs :
       ResizeStop(i, px, pw)
  \/ NoteDownLeft(1, FALSE)
  \/ MouseUp("left")
  \/ KeyDelete

SpecResize == Init /\ [][ResizeNext]_vars

\* The middle button on the notes, with the transport running or not, a note
\* drag in progress or not, and the notes deleted or not.
FundamentalNext ==
  \/ \E i \in 1..Len(ExampleNotes) : NoteDownMiddle(i)
  \/ MouseUp("middle")
  \/ NoteDownLeft(1, FALSE)
  \/ \E y \in PointerYs : MouseMove(2 * 2 * Q - 1, y)
  \/ MouseUp("left")
  \/ KeyDelete
  \/ ClickPlayPause
  \/ Tick

SpecFundamental == Init /\ [][FundamentalNext]_vars

\* ------------------------------------------------------------------ claims
TickOps == {"tick", "tickWrap", "tickEnd"}

Range(m) == {m[i] : i \in DOMAIN m}

Handles == 1..Len(stops)

\* The handles some map or ref of the component still holds.
Held ==
  Range(activePlayback) \cup Range(notePreviewHandles) \cup Range(scrub.active)
    \cup ({drawingPreviewRef} \ {0})

AllStopped == \A h \in Handles : stops[h] = 1

\* C1: after every tick that does not stop the transport, the note indices
\* holding a live playback voice are exactly the indices of the channel's
\* current notes with start <= beat < start + duration, beat being the
\* playhead the tick published.
C1_VoicesAreNotesUnderPlayhead ==
  op \in {"tick", "tickWrap"} =>
    /\ DOMAIN activePlayback = Overlapped(notes, playheadBeat)
    /\ \A i \in DOMAIN activePlayback : stops[activePlayback[i]] = 0

\* C2: gating is idempotent per tick: a note that has a voice before a tick
\* without wrap and is still under the playhead after it keeps the same
\* handle, and startTone is called once per newly covered note only.
C2_GatingIdempotent ==
  [][op' = "tick" =>
       /\ \A i \in DOMAIN activePlayback \cap DOMAIN activePlayback' :
            activePlayback'[i] = activePlayback[i]
       /\ Len(stops') =
            Len(stops) + Cardinality(DOMAIN activePlayback' \ DOMAIN activePlayback)]_vars

\* C2 happens: a tick left a note sounding that was sounding before it, with
\* the playhead past the note's start.
C2_Witness ==
  /\ op = "tick"
  /\ \E i \in DOMAIN playbackBefore \cap DOMAIN activePlayback :
       /\ i \in 1..Len(notes)
       /\ playheadBeat > notes[i].start

C4_WrapIntoLoop ==
  [][(op' \in TickOps /\ LoopActive(timeSelection) /\ TickBeat >= timeSelection.end) =>
       (timeSelection.start <= playheadBeat' /\ playheadBeat' < timeSelection.end)]_vars

\* C5: on a loop wrap every voice sounding before the wrap is stopped, and
\* every voice sounding after it is a new, unstopped handle.
C5_WrapRestartsVoices ==
  op = "tickWrap" =>
    /\ \A i \in DOMAIN playbackBefore : stops[playbackBefore[i]] = 1
    /\ \A i \in DOMAIN activePlayback :
         /\ activePlayback[i] \notin Range(playbackBefore)
         /\ stops[activePlayback[i]] = 0

\* C5 happens: a note was under the playhead before and after a wrap.
C5_Witness ==
  /\ op = "tickWrap"
  /\ DOMAIN playbackBefore \cap DOMAIN activePlayback # {}

\* C6: with no loop region, a tick whose computed beat is >= totalBeats of the
\* channel's notes sets playing to false, the playhead to totalBeats, removes
\* every playback voice and requests no further frame.
C6_StopAtProjectEnd ==
  [][(op' \in TickOps /\ ~LoopActive(timeSelection)
        /\ TickBeat >= TotalBeats(notes)) =>
       /\ ~isPlaying'
       /\ playheadBeat' = TotalBeats(notes)
       /\ activePlayback' = EmptyMap
       /\ rafQueue' = <<>>]_vars

\* C7: play() right after pause() resumes from the paused beat, with or
\* without a loop region.
C7_ResumeFromPausedBeat ==
  [][(op = "pause" /\ op' = "play") => playheadBeat' = playheadBeat]_vars

\* C8: after stop() no frame is requested, playing is false, every playback
\* voice is stopped and removed, and the playhead is the region's start if a
\* region exists, otherwise 0.
C8_StopResets ==
  op = "stop" =>
    /\ rafQueue = <<>>
    /\ rafIdRef = "null"
    /\ ~isPlaying
    /\ activePlayback = EmptyMap
    /\ \A i \in DOMAIN playbackBefore : stops[playbackBefore[i]] = 1
    /\ playheadBeat = (IF timeSelection.has THEN timeSelection.start ELSE 0)

\* C8 happens: stop() ran with voices sounding and a region set.
C8_Witness ==
  /\ op = "stop"
  /\ playbackBefore # EmptyMap
  /\ timeSelection.has
  /\ timeSelection.start > 0

\* C9: play() while playing changes nothing of the transport.
C9_PlayWhilePlayingIsNoop ==
  [][(op' = "play" /\ isPlaying) =>
       UNCHANGED << isPlaying, playheadBeat, playbackStartBeat, elapsed, rafIdRef,
                    rafQueue, activePlayback, stops >>]_vars

\* C9 happens: play() ran while voices of the running transport sounded.
C9_Witness ==
  /\ op = "play"
  /\ isPlaying
  /\ activePlayback # EmptyMap
  /\ elapsed > 0

\* C10: once unmount completes no frame is requested and every handle of the
\* playback map, the note-preview map, the scrub map and the draw preview is
\* stopped.
C10_UnmountSilences ==
  op = "unmount" => (rafQueue = <<>> /\ AllStopped)

\* C11: after the channelId prop changes the selection is empty, the transport
\* is stopped with no frame request pending, and every voice is stopped and
\* released.
C11_SwitchResets ==
  op = "switch" =>
    /\ selected = {}
    /\ ~isPlaying
    /\ rafQueue = << >>
    /\ Held = {}
    /\ AllStopped

\* C12: the completion of a drag changes no note but the one the drag began
\* on; when that note no longer sits at the drag's index the completion
\* changes nothing.
C12_CompletionPatchesOwnNote ==
  [][(op' = "up" /\ drag.on) =>
       /\ Len(notes') = Len(notes)
       /\ \A j \in 1..Len(notes) :
            notes'[j] # notes[j] => j = drag.index /\ notes[j] = drag.note]_vars

\* C13: Delete or Backspace with selection S leaves the notes whose index is
\* not in S, each unchanged and in the original order, leaves the other
\* channel as it was and leaves the selection empty.
C13_DeleteRemovesSelected ==
  [][op' = "delete" =>
       LET kept == {i \in 1..Len(notes) : i \notin selected}
       IN /\ Len(notes') = Cardinality(kept)
          /\ \A i \in kept :
               notes'[Cardinality({j \in kept : j <= i})] = notes[i]
          /\ otherNotes' = otherNotes
          /\ selected' = {}]_vars

\* Notes 1 and 3 of three were selected and deleted: note 2 alone is left.
C13_Witness ==
  /\ op = "delete"
  /\ notes = << ExampleNotes[2] >>
  /\ selected = {}

\* C14: every note of every channel has start >= 0 and duration > 0.
C14_NotesWellFormed ==
  \A ns \in {notes, otherNotes} :
    \A i \in 1..Len(ns) : ns[i].start >= 0 /\ ns[i].duration > 0

\* C15: the note a draw gesture commits starts at min(anchor, end) and lasts
\* one beat when end is the anchor, else max(0.25, |end - anchor| rounded to a
\* quarter beat), end being the pointer's position, in eighths of a beat, at
\* its last move, or the anchor if it never moved.
C15_DrawCommit ==
  [][(op' = "up" /\ draw.on /\ mounted) =>
       LET end == IF draw.moved THEN draw.x ELSE 2 * draw.anchorBeat
           durRaw == Abs(end - 2 * draw.anchorBeat)
           n == notes'[Len(notes')]
       IN /\ Len(notes') >= 1
          /\ 2 * n.start = Min(2 * draw.anchorBeat, end)
          /\ n.duration = IF durRaw = 0 THEN Q ELSE Max(1, Round2(durRaw))]_vars

\* C16: a primary press on note i without shift makes the selection {i};
\* with shift it flips the membership of i and of nothing else.
C16_PressToggles ==
  [][op' = "noteDown" =>
       LET i == lastInput'.index
       IN selected' = IF ~lastInput'.shift THEN {i}
                      ELSE IF i \in selected THEN selected \ {i}
                      ELSE selected \cup {i}]_vars

\* C17: toggleSelect(index, FALSE) empties the selection when it was {index}
\* and makes it {index} otherwise.
C17_ClearOnReclick ==
  [][(op' = "toggle" /\ ~lastInput'.shift) =>
       selected' = IF selected = {lastInput'.index} THEN {}
                   ELSE {lastInput'.index}]_vars

\* The rectangle of a note, X in eighths of a beat and Y in thousandths of a
\* row: x = start * beatWidth, y = pitchY - noteHeight / 2, w = duration *
\* beatWidth, h = noteHeight.
NoteRect(n) ==
  [left |-> 2 * n.start, top |-> GetY(n.ratio) - NoteH \div 2,
   right |-> 2 * n.start + 2 * n.duration,
   bottom |-> GetY(n.ratio) - NoteH \div 2 + NoteH]

\* The normalized rectangle of the marquee in progress.
MarqueeRect ==
  [left |-> Min(marquee.x, marquee.x + marquee.w),
   top |-> Min(marquee.y, marquee.y + marquee.h),
   right |-> Max(marquee.x, marquee.x + marquee.w),
   bottom |-> Max(marquee.y, marquee.y + marquee.h)]

\* Two rectangles share a point.
Meets(a, b) ==
  a.left <= b.right /\ b.left <= a.right /\ a.top <= b.bottom /\ b.top <= a.bottom

\* Two rectangles overlap, touching edges not counting.
Overlaps(a, b) ==
  a.left < b.right /\ b.left < a.right /\ a.top < b.bottom /\ b.top < a.bottom

MarqueeCompletes == op' = "up" /\ marquee.on /\ mounted

\* C18: the completion of a marquee makes the selection exactly the indices
\* of the notes whose rectangle overlaps the normalized marquee rectangle,
\* whatever was selected before.
C18_MarqueeReplacesSelection ==
  [][MarqueeCompletes =>
       selected' = {i \in 1..Len(notes) : Overlaps(NoteRect(notes[i]), MarqueeRect)}]_vars

\* C19: a note whose rectangle only touches the marquee rectangle along an
\* edge is not selected by the marquee's completion.
C19_TouchingIsNotOverlap ==
  [][MarqueeCompletes =>
       \A i \in 1..Len(notes) :
         (Meets(NoteRect(notes[i]), MarqueeRect)
            /\ ~Overlaps(NoteRect(notes[i]), MarqueeRect)) => i \notin selected']_vars

\* C20: a marquee released where it was pressed (w = h = 0) leaves the
\* selection empty.
C20_EmptyMarqueeSelectsNothing ==
  [][(MarqueeCompletes /\ marquee.w = 0 /\ marquee.h = 0) => selected' = {}]_vars

\* The gestures whose move/up listeners are registered in state g, g being a
\* record of the five gesture variables.
Capturing(g) ==
  {n \in {"draw", "marquee", "scrub", "time", "drag"} : g[n].on}

Gestures ==
  [draw |-> draw, marquee |-> marquee, scrub |-> scrub, time |-> timeDrag,
   drag |-> drag]

\* The button whose down starts the gesture.
ButtonOf(n) == IF n \in {"marquee", "time"} THEN "right" ELSE "left"

\* C21: at most one gesture has its listeners registered, and a button-up
\* ends only the gesture that button's down started.
C21_OneGestureOwnsCapture ==
  [][/\ Cardinality(Capturing(Gestures')) <= 1
     /\ op' = "up" =>
          \A n \in Capturing(Gestures) \ Capturing(Gestures') :
            ButtonOf(n) \in buttons \ buttons']_vars

\* C22: a tick in which startTone throws leaves the transport ticking or
\* stopped with isPlaying false, and a button-up after a throw in a scrub
\* update still stops every voice of the scrub and ends the gesture.
C22_StartToneFailureContained ==
  [][/\ op' = "tickThrow" => (rafQueue' # << >> \/ ~isPlaying')
     /\ (op' = "up" /\ scrub.on) =>
          /\ ~scrub'.on
          /\ \A h \in Range(scrub.active) : stops'[h] = 1]_vars

\* The live voices keyed by note index i, in the transport's map, the note
\* previews and the scrub's map.
LiveAt(i) ==
  {h \in Handles :
     /\ stops[h] = 0
     /\ \E m \in {activePlayback, notePreviewHandles, scrub.active} :
          i \in DOMAIN m /\ m[i] = h}

\* C23: a note index has at most one live voice, whoever started it.
C23_OneVoicePerNote ==
  \A i \in 1..MaxNotes : Cardinality(LiveAt(i)) <= 1

\* C24: the commit of a drawn note appends it to the notes current at the
\* commit: what a Delete did while the gesture was in progress stays done.
C24_CommitOnCurrentProject ==
  [][(op' = "up" /\ draw.on /\ mounted) =>
       /\ Len(notes') = Len(notes) + 1
       /\ SubSeq(notes', 1, Len(notes)) = notes
       /\ otherNotes' = otherNotes]_vars

\* C25: the button-up of a playhead scrub stops every voice the scrub
\* started, empties the scrub's map and unregisters its listeners.
C25_ScrubReleaseStopsAll ==
  [][(op' = "up" /\ scrub.on) =>
       /\ ~scrub'.on
       /\ scrub'.active = EmptyMap
       /\ \A h \in scrub.started : stops'[h] = 1]_vars

\* A scrub that passed over two notes has been released.
C25_Witness ==
  /\ op = "up"
  /\ ~scrub.on
  /\ Cardinality(scrub.started) >= 2
  /\ \A h \in scrub.started : stops[h] = 1

\* The indices of the notes ns whose half-open span holds beat b.
SpanHolds(ns, b) ==
  {i \in 1..Len(ns) : ns[i].start <= b /\ b < ns[i].start + ns[i].duration}

\* C26: after the press and after every move of a playhead scrub the notes
\* with a live scrub voice are the channel's notes whose span
\* [start, start + duration) holds the snapped pointer beat, a transport tick
\* at that beat gates the same indices, and a note under the pointer before
\* and after a move keeps its voice.
C26_ScrubGatesUnderPointer ==
  [][(op' = "scrubDown" \/ (op' = "move" /\ scrub.on /\ mounted)) =>
       /\ DOMAIN scrub'.active = SpanHolds(notes', playheadBeat')
       /\ DOMAIN scrub'.active =
            DOMAIN GateNotes(EmptyMap, stops, notes', playheadBeat').map
       /\ \A i \in DOMAIN scrub'.active : stops'[scrub'.active[i]] = 0
       /\ op' = "move" =>
            \A i \in DOMAIN scrub.active \cap DOMAIN scrub'.active :
              scrub'.active[i] = scrub.active[i]]_vars

NoteFields == {"start", "duration", "ratio", "velocity"}

\* C29: the middle button on a note sets the fundamental to the note's ratio
\* and leaves the project, the selection, the transport and every gesture as
\* they were; and no step writes a note with a field beyond start, duration,
\* ratio and velocity into the project.
C29_MiddleSetsFundamental ==
  [][/\ op' = "fundamental" =>
          /\ fundamental' = notes[lastInput'.index].ratio
          /\ notes' = notes /\ otherNotes' = otherNotes
          /\ channelId' = channelId
          /\ selected' = selected /\ timeSelection' = timeSelection
          /\ transportVars' = transportVars
          /\ << notePreviewHandles, drawingPreviewRef, draw, scrub, timeDrag,
                stopOnce, drag, marquee >>' =
             << notePreviewHandles, drawingPreviewRef, draw, scrub, timeDrag,
                stopOnce, drag, marquee >>
          /\ keyClosure' = keyClosure
     /\ \A ns \in {notes', otherNotes'} :
          \A j \in 1..Len(ns) : DOMAIN ns[j] = NoteFields]_vars

\* The middle button went down on the note of ratio 5/4 while the transport
\* was playing and the first note was being dragged.
C29_Witness ==
  /\ op = "fundamental"
  /\ fundamental = <<5, 4>>
  /\ isPlaying
  /\ drag.on
  /\ "left" \in buttons

\* C30: the nearest row of the exact position of row k of a non-empty tuning
\* is row k, also when several rows have the same clamped position.
C30_NearestOfRowIsRow ==
  op = "nearestRow" => nearest.ratio = nearest.rows[nearest.k]

\* C31: in a channel without tuning rows the nearest-row lookup yields ratio
\* 1/1 at Y 0; a draw gesture takes that ratio at its press and at every
\* move, completes, and appends a note of ratio 1/1; a drag completes and
\* leaves the dragged note with ratio 1/1.
C31_EmptyTuningFallsBack ==
  [][tuning = << >> =>
       /\ \A y \in PointerYs :
            FindNearestRowByYPx(tuning, y) = [y |-> 0, ratio |-> <<1, 1>>]
       /\ (op' = "drawDown" \/ (op' = "move" /\ draw.on /\ mounted)) =>
            draw'.on /\ draw'.ratio = <<1, 1>>
       /\ (op' = "up" /\ draw.on /\ mounted) =>
            /\ ~draw'.on
            /\ Len(notes') = Len(draw.notes) + 1
            /\ notes'[Len(notes')].ratio = <<1, 1>>
       /\ (op' = "up" /\ drag.on /\ mounted /\ drag.index \in 1..Len(notes)) =>
            /\ ~drag'.on
            /\ Len(notes') = Len(notes)
            /\ notes'[drag.index].ratio = <<1, 1>>]_vars

\* Without tuning rows the 5/4 note was dragged and a note was drawn: both
\* have ratio 1/1.
C31_Witness ==
  /\ tuning = << >>
  /\ op = "up"
  /\ Len(notes) = Len(ExampleNotes) + 1
  /\ notes[2].ratio = <<1, 1>> /\ notes[2].velocity = 90
  /\ notes[Len(notes)].ratio = <<1, 1>>

\* C32: for every ratio a of positive integers,
\* simplify(multiply(a, divide(1/1, a))) is 1/1.
C32_InverseProductIsOne ==
  op = "inverseProduct" => ratioCall.result = <<1, 1>>

\* The product was taken for 6/4, a ratio that is not in lowest terms.
C32_Witness ==
  /\ op = "inverseProduct"
  /\ ratioCall.a = <<6, 4>>
  /\ ratioCall.result = <<1, 1>>

\* C33: simplify(r) with r's denominator 0, and divide(a, b) with b's numerator
\* 0, fail with DivideByZero and return no ratio.
C33_ZeroFails ==
  /\ (op = "simplify" /\ ratioCall.a[2] = 0) => ratioCall.error = "DivideByZero"
  /\ (op = "divide" /\ ratioCall.b[1] = 0) => ratioCall.error = "DivideByZero"

\* C34: a play() that starts the transport sets the beat anchor to the beat it
\* publishes and the time anchor to now; no step but play, pause, stop and a
\* wrapping tick moves the beat anchor, and no step but those and the clock
\* moves the elapsed time; and every tick without wrap or stop publishes
\* anchor + elapsed seconds * (tempo / 60): from beat 0 at 120 BPM, beat 1.0
\* after 0.5 s.
C34_TickPublishesBeat ==
  [][/\ (op' = "play" /\ ~isPlaying) =>
          playbackStartBeat' = playheadBeat' /\ elapsed' = 0
     /\ (op' \notin {"play", "pause", "stop", "tickWrap"} \/ (op' = "play" /\ isPlaying)) =>
          /\ playbackStartBeat' = playbackStartBeat
          /\ op' # "clock" => elapsed' = elapsed
     /\ op' = "tick" =>
          /\ 60000 * (playheadBeat' - playbackStartBeat) = elapsed * MsPerClock * Tempo * Q
          /\ (playbackStartBeat = 0 /\ Tempo = 120 /\ elapsed * MsPerClock = 500) =>
               playheadBeat' = Q]_vars

\* A tick 1 s after a play() from the loop start at beat 1 published beat 3.
C34_Witness ==
  /\ op = "tick"
  /\ isPlaying
  /\ playbackStartBeat = Q
  /\ elapsed * MsPerClock = 1000
  /\ playheadBeat = 3 * Q

\* The project of the latest render.
Current == Project(notes, otherNotes)

\* A step that edits the project through setProject under App.
EditStep == op' \in {"up", "delete", "resize"} /\ history' # history

\* C35: an edit leaves on top of the history the project that was current
\* immediately before it; undo restores the top of the history and puts the
\* project it replaces first in the future; redo restores the first of the
\* future; undo with an empty history and redo with an empty future leave
\* project, history and future unchanged.
C35_UndoRedoRestore ==
  [][/\ EditStep => history'[Len(history')] = Current
     /\ (op' = "undo" /\ history # << >>) =>
          /\ Project(notes', otherNotes') = history[Len(history)]
          /\ future'[1] = Current
     /\ (op' = "redo" /\ future # << >>) =>
          Project(notes', otherNotes') = future[1]
     /\ (op' = "undo" /\ history = << >>) =>
          UNCHANGED << notes, otherNotes, history, future >>
     /\ (op' = "redo" /\ future = << >>) =>
          UNCHANGED << notes, otherNotes, history, future >>]_vars

\* C37: every index of the selection is an index of the channel's notes.
C37_SelectionValid ==
  selected \subseteq 1..Len(notes)

\* C39: an edit through the history-wrapped setProject appends exactly the
\* project that was current before it to the history and empties the future,
\* so a redo right after an edit changes nothing.
C39_EditPushesAndClears ==
  [][/\ EditStep => history' = Append(history, Current) /\ future' = << >>
     /\ (op' = "redo" /\ op \in {"up", "delete", "resize"} /\ future = << >>) =>
          UNCHANGED << notes, otherNotes, history, future >>]_vars

\* C36: whenever the transport is not playing the playback voice map is empty
\* and no tick is scheduled, and a tick only runs while it is playing.
C36_IdleTransportIsQuiet ==
  [][/\ ~isPlaying' => activePlayback' = EmptyMap /\ rafQueue' = << >>
     /\ op' \in {"tick", "tickWrap", "tickEnd", "tickThrow"} => isPlaying]_vars

\* The transport reached the project end with a voice sounding: it is not
\* playing, the voice is stopped, the map is empty and nothing is scheduled.
C36_Witness ==
  /\ op = "tickEnd"
  /\ ~isPlaying
  /\ playbackBefore # EmptyMap
  /\ activePlayback = EmptyMap
  /\ rafQueue = << >>

\* C38: the time selection is absent or has 0 <= start <= end; a press of the
\* secondary button on the timeline and a release leave it as it is; and no
\* step takes an existing time selection away.
C38_TimeSelectionKept ==
  [][/\ timeSelection'.has =>
          0 <= timeSelection'.start /\ timeSelection'.start <= timeSelection'.end
     /\ op' \in {"timeDown", "up"} => timeSelection' = timeSelection
     /\ timeSelection.has => timeSelection'.has]_vars

\* A time selection dragged from beat 1 to the left of the origin, released:
\* it runs from beat 0 to beat 1.
C38_Witness ==
  /\ op = "up"
  /\ timeSelection = [has |-> TRUE, start |-> 0, end |-> Q]

====
